---- MODULE Spec2Model ----
(***************************************************************************)
(* asyncmux: an asynchronous readers-writer mutex.                         *)
(*                                                                         *)
(* Two lock objects are modelled from asyncmux.ts:                         *)
(*   - the instance mux (decorator / manual form bound to one owner, whose *)
(*     state is the AsyncmuxContext stored in this[CONTEXT]);              *)
(*   - the keyed mux (class Asyncmux: #globalQueue and #partialQueue).     *)
(* Every acquisition is a task.  A step of the model is one synchronous    *)
(* run of library code: the call of an acquire, a promise callback         *)
(* (.then / .finally), or unlock().  User code runs between these steps.   *)
(***************************************************************************)
EXTENDS Integers, Sequences, FiniteSets, TLC

\* Number of acquisitions issued in one run.
NumTasks == 4

\* Number of distinct resource keys used with the keyed mux.
NumKeys == 2

\* Number of unlock() / [Symbol.dispose]() calls made on one AsyncmuxLock.
MaxReleaseCalls == 2

\* Number of AsyncmuxLock handles of a run that are released by dispose or
\* more than once (every other handle is released by one unlock()).
MaxRepeatedHandles == 1

\* Number of abort signals of a run that are aborted.
MaxAborts == 2

\* Number of acquisitions issued in a run in which a signal may be aborted
\* at any moment.
MaxCancelTasks == 3

\* Number of distinct keys given to singleton().
NumSingletonKeys == 2

\* Number of singleton() calls made in one run.
MaxSingletonCalls == 4

\* Number of owner instances of a decorated class.
NumOwners == 2

\* Number of acquisitions issued in a run that uses several owners.
MaxOwnerTasks == 3

Tasks == 1..NumTasks
Keys == 1..NumKeys

\* `key` is undefined: the acquisition targets every resource.
NoKey == 0

\* Identifier of the root AsyncmuxContext (instance mux) and of #globalQueue
\* (keyed mux).  Every other queue is named after the task that created it.
RootQ == 0

\* The owner instances of the instance mux.  The runs that use one owner
\* use TheOwner; NoOwner is the owner of an acquisition not yet issued.
Owners == 1..NumOwners
TheOwner == 1
NoOwner == 0

\* Identifier of the AsyncmuxContext initializeInstance creates for owner o.
Root(o) == RootQ - 2 * (o - 1)
Roots == {Root(o) : o \in Owners}

\* Absent entry of #partialQueue.
NoQueue == -1

\* Second component of the identifier of a QueueItemG.
GSlot == -1

VARIABLES
  component,      \* which lock object the program uses: "irm" or "krm"
  pc,             \* per task: position of the acquisition
  kind,           \* per task: "W" (exclusive) or "R" (shared)
  items,          \* QueueItem objects, by identity
  queues,         \* queue arrays, by identity: sequences of item identities
  slots,          \* per task: queue -> the writableItem / readonlyItem it holds
  stepWait,       \* <<task, queue>> pairs whose stepPromise is unresolved
  thisContext,    \* instance mux: per owner, this[CONTEXT]
  owner,          \* instance mux: per task, the owner (`this`) of the call
  parent,         \* instance mux: the body that issued the call (0: none)
  awaited,        \* instance mux: the issuing body awaits the call
  partialQueue,   \* keyed mux: #partialQueue, key -> queue identity
  key,            \* keyed mux: per task, the key option
  gPending,       \* keyed mux: queues whose globalItem.ready.then(next) has not run
  signalAborted,  \* per task: abortSignal.aborted of the signal given to the acquire
  unlockCalled,   \* per task: AsyncmuxLock.#unlockCalled of its handle
  releaseCalls,   \* per task: number of unlock() / dispose calls on its handle
  cache,          \* singleton: globalThis.asyncmux__singleton, key -> entry
  execs,          \* singleton: the executions of fn, in order
  calls           \* singleton: the singleton() calls made and what they returned

vars == <<component, pc, kind, items, queues, slots, stepWait, thisContext, owner,
          parent, awaited, partialQueue, key, gPending,
          signalAborted, unlockCalled, releaseCalls, cache, execs, calls>>

\* The state of the abort signals and of the AsyncmuxLock handles.
handleVars == <<signalAborted, unlockCalled, releaseCalls>>

\* The state of the singleton utility.
singletonVars == <<cache, execs, calls>>

(***************************************************************************)
(* Queue items                                                             *)
(***************************************************************************)

QueueItemW(isReady) == [type |-> "W", ready |-> isReady, steps |-> <<>>, count |-> 0]
QueueItemR(isReady) == [type |-> "R", ready |-> isReady, steps |-> <<>>, count |-> 0]
QueueItemG(isReady) == [type |-> "G", ready |-> isReady, steps |-> <<>>, count |-> 0]

\* A step of a QueueItemW: the `next` closure of a task, or the `resolve` of
\* a task's stepPromise.
StepNext(t) == [f |-> "next", t |-> t]
StepResolve(t) == [f |-> "resolve", t |-> t]

\* The mutable heap the acquire / release code works on.
Heap == [items |-> items, queues |-> queues, stepWait |-> stepWait,
         partialQueue |-> partialQueue]

Latest(h, q) == h.queues[q][Len(h.queues[q])]

(***************************************************************************)
(* Instance mux                                                            *)
(***************************************************************************)

\* AsyncmuxContext.lockType: the root context has null, the context created
\* when task c starts has the kind of c.
LockType(c) == IF c \in Roots THEN "null" ELSE kind[c]

\* A CONTEXT property that all the owners share.
ContextOfTheOwner(o) == thisContext[TheOwner]

\* this[CONTEXT], read on owner o.
Context(o) == thisContext[o]

\* item.start(): resolves the ready promise.
Start(h, id) == [h EXCEPT !.items[id].ready = TRUE]

\* context.queue.shift(); context.queue[0]?.start()
IShift(h, c) ==
  IF h.queues[c] = <<>> THEN h
  ELSE LET rest == Tail(h.queues[c])
           h1 == [h EXCEPT !.queues[c] = rest]
       IN IF rest = <<>> THEN h1 ELSE Start(h1, Head(rest))

\* function next() of asyncmuxClassMethod, closed over writableItem `id`
\* and `context` c.
RECURSIVE INextW(_, _, _)
INextW(h, id, c) ==
  LET steps == h.items[id].steps IN
  IF steps = <<>> THEN IShift(h, c)
  ELSE LET step == Head(steps)
           h1 == [h EXCEPT !.items[id].steps = Tail(steps)]
       IN IF step.f = "next" THEN INextW(h1, id, c)
          ELSE [h1 EXCEPT !.stepWait = @ \ {<<step.t, c>>}]

\* function next() of asyncmuxReadonlyClassMethod.
INextR(h, id, c) ==
  LET h1 == [h EXCEPT !.items[id].count = @ - 1] IN
  IF h1.items[id].count = 0 THEN IShift(h1, c) ELSE h1

\* The item an arriving writer uses: a new QueueItemW behind a reader, the
\* tail QueueItemW, or a new ready QueueItemW on an empty queue.
IWritableItem(h, t, c) ==
  IF h.queues[c] = <<>> THEN <<t, c>>
  ELSE IF h.items[Latest(h, c)].type = "W" THEN Latest(h, c) ELSE <<t, c>>

IPushWritable(h, t, c) ==
  IF h.queues[c] = <<>>
  THEN [h EXCEPT !.items = @ @@ (<<t, c>> :> QueueItemW(TRUE)),
                 !.queues[c] = Append(@, <<t, c>>)]
  ELSE IF h.items[Latest(h, c)].type = "W" THEN h
  ELSE [h EXCEPT !.items = @ @@ (<<t, c>> :> QueueItemW(FALSE)),
                 !.queues[c] = Append(@, <<t, c>>)]

\* Pushes the arriving writer's step: `next` when steps is empty (no
\* stepPromise), else the resolve of a new stepPromise.
IPushStep(h, t, c, id) ==
  IF h.items[id].steps = <<>>
  THEN [h EXCEPT !.items[id].steps = Append(@, StepNext(t))]
  ELSE [h EXCEPT !.items[id].steps = Append(@, StepResolve(t)),
                 !.stepWait = @ \cup {<<t, c>>}]

IArriveW(h, t, c) == IPushStep(IPushWritable(h, t, c), t, c, IWritableItem(h, t, c))

IReadonlyItem(h, t, c) ==
  IF h.queues[c] = <<>> THEN <<t, c>>
  ELSE IF h.items[Latest(h, c)].type = "R" THEN Latest(h, c) ELSE <<t, c>>

\* IPushReadonly with the empty-queue case copied from the "W" case: the new
\* item waits for a start() that nobody calls.
IPushReadonlyUnresolved(h, t, c) ==
  IF h.queues[c] = <<>>
  THEN [h EXCEPT !.items = @ @@ (<<t, c>> :> QueueItemR(FALSE)),
                 !.queues[c] = Append(@, <<t, c>>)]
  ELSE IF h.items[Latest(h, c)].type = "R" THEN h
  ELSE [h EXCEPT !.items = @ @@ (<<t, c>> :> QueueItemR(FALSE)),
                 !.queues[c] = Append(@, <<t, c>>)]

IPushReadonly(h, t, c) ==
  IF h.queues[c] = <<>>
  THEN [h EXCEPT !.items = @ @@ (<<t, c>> :> QueueItemR(TRUE)),
                 !.queues[c] = Append(@, <<t, c>>)]
  ELSE IF h.items[Latest(h, c)].type = "R" THEN h
  ELSE [h EXCEPT !.items = @ @@ (<<t, c>> :> QueueItemR(FALSE)),
                 !.queues[c] = Append(@, <<t, c>>)]

IArriveR(h, t, c) ==
  [IPushReadonly(h, t, c) EXCEPT !.items[IReadonlyItem(h, t, c)].count = @ + 1]

\* Tasks are issued in the order of their numbers.
IsNextCall(t) == pc[t] = "idle" /\ \A u \in Tasks : u < t => pc[u] # "idle"

SetHeap(h) ==
  /\ items' = h.items
  /\ queues' = h.queues
  /\ stepWait' = h.stepWait
  /\ partialQueue' = h.partialQueue

\* asyncmuxClassMethod(...args), up to the return of its promise.
IrmCallExclusive(t, o, p, aw) ==
  /\ component = "irm"
  /\ IsNextCall(t)
  /\ IF p = 0 THEN TRUE ELSE pc[p] = "holding"
  /\ aw => p # 0
  /\ kind' = [kind EXCEPT ![t] = "W"]
  /\ parent' = [parent EXCEPT ![t] = p]
  /\ awaited' = [awaited EXCEPT ![t] = aw]
  /\ owner' = [owner EXCEPT ![t] = o]
  /\ IF LockType(Context(o)) = "R"
     THEN /\ pc' = [pc EXCEPT ![t] = "rejected"]
          /\ UNCHANGED <<items, queues, stepWait, partialQueue, slots>>
     ELSE /\ pc' = [pc EXCEPT ![t] = "waiting"]
          /\ SetHeap(IArriveW(Heap, t, Context(o)))
          /\ slots' = [slots EXCEPT ![t] =
                         (Context(o) :> IWritableItem(Heap, t, Context(o)))]
  /\ UNCHANGED singletonVars
  /\ UNCHANGED <<component, thisContext, key, gPending>>
  /\ UNCHANGED handleVars

\* asyncmuxReadonlyClassMethod(...args), up to the return of its promise.
IrmCallShared(t, o, p, aw) ==
  /\ component = "irm"
  /\ IsNextCall(t)
  /\ IF p = 0 THEN TRUE ELSE pc[p] = "holding"
  /\ aw => p # 0
  /\ kind' = [kind EXCEPT ![t] = "R"]
  /\ parent' = [parent EXCEPT ![t] = p]
  /\ awaited' = [awaited EXCEPT ![t] = aw]
  /\ pc' = [pc EXCEPT ![t] = "waiting"]
  /\ owner' = [owner EXCEPT ![t] = o]
  /\ SetHeap(IArriveR(Heap, t, Context(o)))
  /\ slots' = [slots EXCEPT ![t] =
                 (Context(o) :> IReadonlyItem(Heap, t, Context(o)))]
  /\ UNCHANGED singletonVars
  /\ UNCHANGED <<component, thisContext, key, gPending>>
  /\ UNCHANGED handleVars

\* The queue (context) a task of the instance mux arrived on.
Captured(t) == CHOOSE c \in DOMAIN slots[t] : TRUE

\* readyPromise is resolved: the item's ready promise and the stepPromise.
SlotReady(t, q) == items[slots[t][q]].ready /\ <<t, q>> \notin stepWait

AllReady(t) == \A q \in DOMAIN slots[t] : SlotReady(t, q)

\* Promise.race of the acquire has settled with the abort reason as well.
PendingOrAborted(t) == pc[t] \in {"waiting", "aborted"}

\* Promise.race of the acquire has not settled: the caller is still waiting.
Pending(t) == pc[t] = "waiting"

\* The .then callback of readyPromise: this[CONTEXT] = new AsyncmuxContext(kind)
\* and the body starts.  The body of a cancelled manual acquire is
\* waitForUnlock with unlockPromise already resolved.
IrmStart(t) ==
  /\ component = "irm"
  /\ pc[t] \in {"waiting", "aborted"}
  /\ AllReady(t)
  /\ pc' = [pc EXCEPT ![t] = IF Pending(t) THEN "holding" ELSE "draining"]
  /\ thisContext' = [thisContext EXCEPT ![owner[t]] = t]
  /\ UNCHANGED singletonVars
  /\ UNCHANGED <<component, owner, kind, items, queues, slots, stepWait, parent,
                 awaited, partialQueue, key, gPending>>
  /\ UNCHANGED handleVars

\* The caller of the acquire has its result, or has released its handle.
Settled(u) ==
  pc[u] \in {"done", "rejected", "failed", "aborted", "draining", "cancelled"}

\* A body ends only after the calls it awaits have settled.
BodyCanEnd(t) ==
  \A u \in Tasks : (parent[u] = t /\ awaited[u]) => Settled(u)

\* The .finally callback taken as skipped when the body rejects.
IReleaseSkipped(h, t) == h

\* function next() of the task's acquisition.
IRelease(h, t) ==
  IF kind[t] = "W"
  THEN INextW(h, slots[t][Captured(t)], Captured(t))
  ELSE INextR(h, slots[t][Captured(t)], Captured(t))

\* The body has settled; the .finally callback: this[CONTEXT] = context; next().
IrmFinish(t) ==
  /\ component = "irm"
  /\ pc[t] \in {"holding", "draining"}
  /\ BodyCanEnd(t)
  /\ pc' = [pc EXCEPT ![t] = IF pc[t] = "draining" THEN "cancelled" ELSE "done"]
  /\ thisContext' = [thisContext EXCEPT ![owner[t]] = Captured(t)]
  /\ SetHeap(IRelease(Heap, t))
  /\ UNCHANGED singletonVars
  /\ UNCHANGED <<component, owner, kind, slots, parent, awaited, key, gPending>>
  /\ UNCHANGED handleVars

IrmNext ==
  \/ \E t \in Tasks, p \in {0} \cup Tasks, aw \in BOOLEAN : IrmCallExclusive(t, TheOwner, p, aw)
  \/ \E t \in Tasks, p \in {0} \cup Tasks, aw \in BOOLEAN : IrmCallShared(t, TheOwner, p, aw)
  \/ \E t \in Tasks : IrmStart(t)
  \/ \E t \in Tasks : IrmFinish(t)

\* The acquisitions of a run that uses several owners.
OwnerTasks == 1..MaxOwnerTasks

\* Decorated methods called on several owners, from outside and from inside
\* the bodies of one another.
OwnersNext ==
  \/ \E t \in OwnerTasks, o \in Owners, p \in {0} \cup Tasks, aw \in BOOLEAN :
       IrmCallExclusive(t, o, p, aw)
  \/ \E t \in OwnerTasks, o \in Owners, p \in {0} \cup Tasks, aw \in BOOLEAN :
       IrmCallShared(t, o, p, aw)
  \/ \E t \in Tasks : IrmStart(t)
  \/ \E t \in Tasks : IrmFinish(t)

(***************************************************************************)
(* Keyed mux (class Asyncmux)                                              *)
(***************************************************************************)

\* The key a queue is registered under in #partialQueue (null for
\* #globalQueue): the `key` its next closures are closed over.
QueueKey(q) == IF q = RootQ THEN NoKey ELSE key[q]

LiveQueues == {partialQueue[k] : k \in {k \in Keys : partialQueue[k] # NoQueue}}

\* The globalItem #getQueueEntries puts at the head of a new per-key queue:
\* the tail QueueItemG of #globalQueue, or a new one.
GlobalItem(h, t) ==
  IF h.queues[RootQ] = <<>> THEN <<t, GSlot>>
  ELSE IF h.items[Latest(h, RootQ)].type = "G" THEN Latest(h, RootQ)
  ELSE <<t, GSlot>>

\* PushGlobalItem whose item on an empty #globalQueue is made like the one
\* behind a "W" / "R" tail: with a ready promise that start() must resolve.
PushGlobalItemUnresolved(h, t) ==
  IF h.queues[RootQ] = <<>>
  THEN [h EXCEPT !.items = @ @@ (<<t, GSlot>> :> QueueItemG(FALSE)),
                 !.queues[RootQ] = Append(@, <<t, GSlot>>)]
  ELSE IF h.items[Latest(h, RootQ)].type = "G" THEN h
  ELSE [h EXCEPT !.items = @ @@ (<<t, GSlot>> :> QueueItemG(FALSE)),
                 !.queues[RootQ] = Append(@, <<t, GSlot>>)]

PushGlobalItem(h, t) ==
  IF h.queues[RootQ] = <<>>
  THEN [h EXCEPT !.items = @ @@ (<<t, GSlot>> :> QueueItemG(TRUE)),
                 !.queues[RootQ] = Append(@, <<t, GSlot>>)]
  ELSE IF h.items[Latest(h, RootQ)].type = "G" THEN h
  ELSE [h EXCEPT !.items = @ @@ (<<t, GSlot>> :> QueueItemG(FALSE)),
                 !.queues[RootQ] = Append(@, <<t, GSlot>>)]

\* QueueEntries whose branch for an existing key yields what the branch for
\* an undefined key yields: every per-key queue.
QueueEntriesOfEveryKey(t, k) ==
  IF k = NoKey \/ partialQueue[k] # NoQueue
  THEN (IF LiveQueues # {} THEN LiveQueues ELSE {RootQ})
  ELSE {t}

\* #getQueueEntries(key): the queues the acquisition arrives on.
QueueEntries(t, k) ==
  IF k = NoKey THEN (IF LiveQueues # {} THEN LiveQueues ELSE {RootQ})
  ELSE IF partialQueue[k] # NoQueue THEN {partialQueue[k]}
  ELSE {t}

\* #getQueueEntries(key): the new per-key queue of a key that has none.
GetQueueEntries(h, t, k) ==
  IF k = NoKey \/ h.partialQueue[k] # NoQueue THEN h
  ELSE [PushGlobalItem(h, t) EXCEPT !.queues[t] = <<GlobalItem(h, t)>>,
                                    !.partialQueue[k] = t]

\* KShift without the start of the new head item.
KShiftNoStart(h, q) ==
  LET rest == IF h.queues[q] = <<>> THEN <<>> ELSE Tail(h.queues[q])
      h1 == [h EXCEPT !.queues[q] = rest]
  IN IF rest # <<>> THEN h1
     ELSE IF QueueKey(q) # NoKey
          THEN [h1 EXCEPT !.partialQueue[QueueKey(q)] = NoQueue]
          ELSE h1

\* queue.shift(); then item.start(), or #partialQueue.delete(key).
KShift(h, q) ==
  LET rest == IF h.queues[q] = <<>> THEN <<>> ELSE Tail(h.queues[q])
      h1 == [h EXCEPT !.queues[q] = rest]
  IN IF rest # <<>> THEN Start(h1, Head(rest))
     ELSE IF QueueKey(q) # NoKey
          THEN [h1 EXCEPT !.partialQueue[QueueKey(q)] = NoQueue]
          ELSE h1

\* const next of lock(), closed over writableItem `id`, `queue` q and `key`.
RECURSIVE KNextW(_, _, _)
KNextW(h, id, q) ==
  LET steps == h.items[id].steps IN
  IF steps = <<>> THEN KShift(h, q)
  ELSE LET step == Head(steps)
           h1 == [h EXCEPT !.items[id].steps = Tail(steps)]
       IN IF step.f = "next" THEN KNextW(h1, id, q)
          ELSE [h1 EXCEPT !.stepWait = @ \ {<<step.t, q>>}]

\* const next of rLock().
KNextR(h, id, q) ==
  LET h1 == [h EXCEPT !.items[id].count = @ - 1] IN
  IF h1.items[id].count = 0 THEN KShift(h1, q) ELSE h1

KWritableItem(h, t, q) ==
  IF h.queues[q] = <<>> THEN <<t, q>>
  ELSE IF h.items[Latest(h, q)].type # "W" THEN <<t, q>> ELSE Latest(h, q)

\* KPushWritable without the "W" case of the switch: a new item is pushed
\* whatever the tail is.
KPushWritableAlways(h, t, q) ==
  [h EXCEPT !.items = @ @@ (<<t, q>> :> QueueItemW(h.queues[q] = <<>>)),
            !.queues[q] = Append(@, <<t, q>>)]

KPushWritable(h, t, q) ==
  IF h.queues[q] = <<>>
  THEN [h EXCEPT !.items = @ @@ (<<t, q>> :> QueueItemW(TRUE)),
                 !.queues[q] = Append(@, <<t, q>>)]
  ELSE IF h.items[Latest(h, q)].type # "W"
  THEN [h EXCEPT !.items = @ @@ (<<t, q>> :> QueueItemW(FALSE)),
                 !.queues[q] = Append(@, <<t, q>>)]
  ELSE h

\* stepPromise: resolved when steps is empty (and `next` is pushed), else a
\* new promise whose resolve is pushed.
KPushStep(h, t, q, id) ==
  IF h.items[id].steps = <<>>
  THEN [h EXCEPT !.items[id].steps = Append(@, StepNext(t))]
  ELSE [h EXCEPT !.items[id].steps = Append(@, StepResolve(t)),
                 !.stepWait = @ \cup {<<t, q>>}]

\* One iteration of the for loop of lock().
KArriveW(h, t, q) == KPushStep(KPushWritable(h, t, q), t, q, KWritableItem(h, t, q))

KReadonlyItem(h, t, q) ==
  IF h.queues[q] = <<>> THEN <<t, q>>
  ELSE IF h.items[Latest(h, q)].type # "R" THEN <<t, q>> ELSE Latest(h, q)

KPushReadonly(h, t, q) ==
  IF h.queues[q] = <<>>
  THEN [h EXCEPT !.items = @ @@ (<<t, q>> :> QueueItemR(TRUE)),
                 !.queues[q] = Append(@, <<t, q>>)]
  ELSE IF h.items[Latest(h, q)].type # "R"
  THEN [h EXCEPT !.items = @ @@ (<<t, q>> :> QueueItemR(FALSE)),
                 !.queues[q] = Append(@, <<t, q>>)]
  ELSE h

\* One iteration of the for loop of rLock().
KArriveR(h, t, q) ==
  [KPushReadonly(h, t, q) EXCEPT !.items[KReadonlyItem(h, t, q)].count = @ + 1]

\* The for loop of lock() over the queue entries.
RECURSIVE LockLoop(_, _, _)
LockLoop(h, t, qs) ==
  IF qs = {} THEN h
  ELSE LET q == CHOOSE x \in qs : TRUE
       IN LockLoop(KArriveW(h, t, q), t, qs \ {q})

\* The for loop of rLock() over the queue entries.
RECURSIVE RLockLoop(_, _, _)
RLockLoop(h, t, qs) ==
  IF qs = {} THEN h
  ELSE LET q == CHOOSE x \in qs : TRUE
       IN RLockLoop(KArriveR(h, t, q), t, qs \ {q})

\* const next = () => nextFuncList.forEach(next => next())
RECURSIVE NextFuncList(_, _, _)
NextFuncList(h, t, qs) ==
  IF qs = {} THEN h
  ELSE LET q == CHOOSE x \in qs : TRUE
           h1 == IF kind[t] = "W" THEN KNextW(h, slots[t][q], q)
                 ELSE KNextR(h, slots[t][q], q)
       IN NextFuncList(h1, t, qs \ {q})

\* globalItem.ready.then(next) is registered for a new per-key queue.
NewPending(t, k) ==
  IF k # NoKey /\ partialQueue[k] = NoQueue THEN {<<t, GlobalItem(Heap, t)>>} ELSE {}

\* lock(arg0), up to the return of its promise.
KrmLock(t, k) ==
  /\ component = "krm"
  /\ IsNextCall(t)
  /\ kind' = [kind EXCEPT ![t] = "W"]
  /\ key' = [key EXCEPT ![t] = k]
  /\ pc' = [pc EXCEPT ![t] = "waiting"]
  /\ LET h0 == GetQueueEntries(Heap, t, k)
         qs == QueueEntries(t, k)
     IN /\ SetHeap(LockLoop(h0, t, qs))
        /\ slots' = [slots EXCEPT ![t] = [q \in qs |-> KWritableItem(h0, t, q)]]
  /\ gPending' = gPending \cup NewPending(t, k)
  /\ UNCHANGED singletonVars
  /\ UNCHANGED <<component, owner, thisContext, parent, awaited>>
  /\ UNCHANGED handleVars

\* rLock(arg0), up to the return of its promise.
KrmRLock(t, k) ==
  /\ component = "krm"
  /\ IsNextCall(t)
  /\ kind' = [kind EXCEPT ![t] = "R"]
  /\ key' = [key EXCEPT ![t] = k]
  /\ pc' = [pc EXCEPT ![t] = "waiting"]
  /\ LET h0 == GetQueueEntries(Heap, t, k)
         qs == QueueEntries(t, k)
     IN /\ SetHeap(RLockLoop(h0, t, qs))
        /\ slots' = [slots EXCEPT ![t] = [q \in qs |-> KReadonlyItem(h0, t, q)]]
  /\ gPending' = gPending \cup NewPending(t, k)
  /\ UNCHANGED singletonVars
  /\ UNCHANGED <<component, owner, thisContext, parent, awaited>>
  /\ UNCHANGED handleVars

\* The callback globalItem.ready.then(next) of #getQueueEntries for queue q.
KrmGlobalReady(q, g) ==
  /\ component = "krm"
  /\ <<q, g>> \in gPending
  /\ items[g].ready
  /\ gPending' = gPending \ {<<q, g>>}
  /\ SetHeap(KShift(Heap, q))
  /\ UNCHANGED singletonVars
  /\ UNCHANGED <<component, owner, pc, kind, slots, thisContext, parent, awaited, key>>
  /\ UNCHANGED handleVars

\* readyPromise wins the race: the caller receives its AsyncmuxLock.
KrmGrant(t) ==
  /\ component = "krm"
  /\ Pending(t)
  /\ AllReady(t)
  /\ pc' = [pc EXCEPT ![t] = "holding"]
  /\ UNCHANGED singletonVars
  /\ UNCHANGED <<component, owner, kind, items, queues, slots, stepWait, thisContext,
                 parent, awaited, partialQueue, key, gPending>>
  /\ UNCHANGED handleVars

\* #resolve() of a handle whose unlockPromise is resolved, taken as arming
\* the .finally(next) callback again.
ReleaseOutcomeAgain(p) == IF p \in {"holding", "done"} THEN "unlocked" ELSE p

\* #resolve() of an AsyncmuxLock: resolves unlockPromise; a resolved promise
\* stays as it is.
ReleaseOutcome(p) == IF p = "holding" THEN "unlocked" ELSE p

\* The first release of a handle, by AsyncmuxLock.unlock().
KrmUnlock(t) ==
  /\ component = "krm"
  /\ pc[t] = "holding"
  /\ releaseCalls[t] = 0
  /\ pc' = [pc EXCEPT ![t] = ReleaseOutcome(pc[t])]
  /\ unlockCalled' = [unlockCalled EXCEPT ![t] = TRUE]
  /\ releaseCalls' = [releaseCalls EXCEPT ![t] = 1]
  /\ UNCHANGED singletonVars
  /\ UNCHANGED <<component, owner, kind, items, queues, slots, stepWait, thisContext,
                 parent, awaited, partialQueue, key, gPending, signalAborted>>

\* readyPromise.then(() => unlockPromise).finally(next)
KrmAdvance(t) ==
  /\ component = "krm"
  /\ pc[t] \in {"unlocked", "aborted"}
  /\ AllReady(t)
  /\ pc' = [pc EXCEPT ![t] = IF pc[t] = "aborted" THEN "cancelled" ELSE "done"]
  /\ SetHeap(NextFuncList(Heap, t, DOMAIN slots[t]))
  /\ UNCHANGED singletonVars
  /\ UNCHANGED <<component, owner, kind, slots, thisContext, parent, awaited, key, gPending>>
  /\ UNCHANGED handleVars

KrmNext ==
  \/ \E t \in Tasks, k \in {NoKey} \cup Keys : KrmLock(t, k)
  \/ \E t \in Tasks, k \in {NoKey} \cup Keys : KrmRLock(t, k)
  \/ \E q \in Tasks, g \in DOMAIN items : KrmGlobalReady(q, g)
  \/ \E t \in Tasks : KrmGrant(t)
  \/ \E t \in Tasks : KrmUnlock(t)
  \/ \E t \in Tasks : KrmAdvance(t)

(***************************************************************************)
(* Cancellation, AsyncmuxLock handles and failing bodies                   *)
(***************************************************************************)

\* The abort listener taken as releasing a lock that is already held.
AbortOutcomeReleases(p) == IF p = "waiting" THEN "aborted" ELSE "unlocked"

\* The abort listener resolves errorPromise / abortPromise.  While the race
\* is pending the acquire rejects with the reason and unlock() is called for
\* it; after the race has settled with the handle nothing happens.
AbortOutcome(p) == IF p = "waiting" THEN "aborted" ELSE p

\* throwIfAborted() taken as placed after #getQueueEntries(key).
AbortedCallHeapLate(h, t, k) == GetQueueEntries(h, t, k)

\* abortSignal?.throwIfAborted() is the first statement of lock() / rLock():
\* an acquire with an aborted signal does not reach #getQueueEntries.
AbortedCallHeap(h, t, k) == h

\* Another abort signal of the run can be aborted.
CanAbort == Cardinality({u \in Tasks : signalAborted[u]}) < MaxAborts

\* asyncmux(this_, { abortSignal }) / asyncmuxReadonly(...) with a signal that
\* is already aborted.
IrmCallAborted(t, kd) ==
  /\ component = "irm"
  /\ IsNextCall(t)
  /\ CanAbort
  /\ kd \in {"W", "R"}
  /\ pc' = [pc EXCEPT ![t] = "rejected"]
  /\ signalAborted' = [signalAborted EXCEPT ![t] = TRUE]
  /\ UNCHANGED singletonVars
  /\ UNCHANGED <<component, owner, kind, items, queues, slots, stepWait, thisContext,
                 parent, awaited, partialQueue, key, gPending, unlockCalled,
                 releaseCalls>>

\* lock({ key, abortSignal }) / rLock(...) with a signal that is already
\* aborted.  The call fails before its options are used.
KrmCallAborted(t, k, kd) ==
  /\ component = "krm"
  /\ IsNextCall(t)
  /\ CanAbort
  /\ kd \in {"W", "R"}
  /\ pc' = [pc EXCEPT ![t] = "rejected"]
  /\ signalAborted' = [signalAborted EXCEPT ![t] = TRUE]
  /\ SetHeap(AbortedCallHeap(Heap, t, k))
  /\ UNCHANGED singletonVars
  /\ UNCHANGED <<component, owner, kind, key, slots, thisContext, parent, awaited,
                 gPending, unlockCalled, releaseCalls>>

\* The signal given to a manual acquire of the instance mux is aborted.
IrmAbort(t) ==
  /\ component = "irm"
  /\ pc[t] \in {"waiting", "holding"}
  /\ CanAbort
  /\ signalAborted' = [signalAborted EXCEPT ![t] = TRUE]
  /\ pc' = [pc EXCEPT ![t] = AbortOutcome(pc[t])]
  /\ UNCHANGED singletonVars
  /\ UNCHANGED <<component, owner, kind, items, queues, slots, stepWait, thisContext,
                 parent, awaited, partialQueue, key, gPending, unlockCalled,
                 releaseCalls>>

\* The signal given to lock() / rLock() is aborted.
KrmAbort(t) ==
  /\ component = "krm"
  /\ pc[t] \in {"waiting", "holding"}
  /\ CanAbort
  /\ signalAborted' = [signalAborted EXCEPT ![t] = TRUE]
  /\ pc' = [pc EXCEPT ![t] = AbortOutcome(pc[t])]
  /\ UNCHANGED singletonVars
  /\ UNCHANGED <<component, owner, kind, items, queues, slots, stepWait, thisContext,
                 parent, awaited, partialQueue, key, gPending, unlockCalled,
                 releaseCalls>>

\* The handle of the task was released by dispose, or more than once.
Repeated(u) == releaseCalls[u] > 1 \/ (releaseCalls[u] = 1 /\ ~unlockCalled[u])

CanRepeat(t) ==
  Repeated(t) \/ Cardinality({u \in Tasks : Repeated(u)}) < MaxRepeatedHandles

\* The handle of the task can be released for the first time.
FirstRelease(t) == pc[t] = "holding" /\ releaseCalls[t] = 0 /\ CanRepeat(t)

\* The handle of the task has been released and can be released again.
LaterRelease(t) == releaseCalls[t] \in 1..(MaxReleaseCalls - 1) /\ CanRepeat(t)

\* AsyncmuxLock.unlock() on a handle that has been released before.
KrmUnlockAgain(t) ==
  /\ component = "krm"
  /\ LaterRelease(t)
  /\ pc' = [pc EXCEPT ![t] = ReleaseOutcome(pc[t])]
  /\ unlockCalled' = [unlockCalled EXCEPT ![t] = TRUE]
  /\ releaseCalls' = [releaseCalls EXCEPT ![t] = @ + 1]
  /\ UNCHANGED singletonVars
  /\ UNCHANGED <<component, owner, kind, items, queues, slots, stepWait, thisContext,
                 parent, awaited, partialQueue, key, gPending, signalAborted>>

\* AsyncmuxLock[Symbol.dispose](): the end of the scope of `using`.
KrmDispose(t) ==
  /\ component = "krm"
  /\ FirstRelease(t) \/ LaterRelease(t)
  /\ pc' = [pc EXCEPT ![t] = IF unlockCalled[t] THEN pc[t] ELSE ReleaseOutcome(pc[t])]
  /\ releaseCalls' = [releaseCalls EXCEPT ![t] = @ + 1]
  /\ UNCHANGED singletonVars
  /\ UNCHANGED <<component, owner, kind, items, queues, slots, stepWait, thisContext,
                 parent, awaited, partialQueue, key, gPending, signalAborted,
                 unlockCalled>>

\* The body of a decorated method rejects; the .finally callback runs:
\* this[CONTEXT] = context; next(); then the rejection reaches the caller.
IrmFail(t) ==
  /\ component = "irm"
  /\ pc[t] = "holding"
  /\ BodyCanEnd(t)
  /\ pc' = [pc EXCEPT ![t] = "failed"]
  /\ thisContext' = [thisContext EXCEPT ![owner[t]] = Captured(t)]
  /\ SetHeap(IRelease(Heap, t))
  /\ UNCHANGED singletonVars
  /\ UNCHANGED <<component, owner, kind, slots, parent, awaited, key, gPending>>
  /\ UNCHANGED handleVars

\* The acquisitions of a run in which a signal may be aborted at any moment.
CancelTasks == 1..MaxCancelTasks

\* The two lock objects used with abort signals.
CancelNext ==
  \/ \E t \in CancelTasks, p \in {0} \cup Tasks, aw \in BOOLEAN : IrmCallExclusive(t, TheOwner, p, aw)
  \/ \E t \in CancelTasks, p \in {0} \cup Tasks, aw \in BOOLEAN : IrmCallShared(t, TheOwner, p, aw)
  \/ \E t \in CancelTasks, kd \in {"W", "R"} : IrmCallAborted(t, kd)
  \/ \E t \in Tasks : IrmStart(t)
  \/ \E t \in Tasks : IrmFinish(t)
  \/ \E t \in Tasks : IrmAbort(t)
  \/ \E t \in CancelTasks, k \in {NoKey} \cup Keys : KrmLock(t, k)
  \/ \E t \in CancelTasks, k \in {NoKey} \cup Keys : KrmRLock(t, k)
  \/ \E t \in CancelTasks, k \in {NoKey} \cup Keys, kd \in {"W", "R"} : KrmCallAborted(t, k, kd)
  \/ \E q \in Tasks, g \in DOMAIN items : KrmGlobalReady(q, g)
  \/ \E t \in Tasks : KrmGrant(t)
  \/ \E t \in Tasks : KrmUnlock(t)
  \/ \E t \in Tasks : KrmAdvance(t)
  \/ \E t \in Tasks : KrmAbort(t)

\* The keyed mux used with abort signals.
KrmCancelNext ==
  \/ \E t \in CancelTasks, k \in {NoKey} \cup Keys : KrmLock(t, k)
  \/ \E t \in CancelTasks, k \in {NoKey} \cup Keys : KrmRLock(t, k)
  \/ \E t \in CancelTasks, k \in {NoKey} \cup Keys, kd \in {"W", "R"} : KrmCallAborted(t, k, kd)
  \/ \E q \in Tasks, g \in DOMAIN items : KrmGlobalReady(q, g)
  \/ \E t \in Tasks : KrmGrant(t)
  \/ \E t \in Tasks : KrmUnlock(t)
  \/ \E t \in Tasks : KrmAdvance(t)
  \/ \E t \in Tasks : KrmAbort(t)

KrmHandleNext ==
  \/ \E t \in Tasks : KrmUnlockAgain(t)
  \/ \E t \in Tasks : KrmDispose(t)

(***************************************************************************)
(* singleton                                                               *)
(***************************************************************************)

SingletonKeys == 1..NumSingletonKeys

\* What the fn given to a call does when it is executed: it returns a value,
\* throws, or returns a promise.
FnKinds == {"returns", "throws", "promise"}

\* Every variable of the two lock objects.
muxVars == <<pc, kind, items, queues, slots, stepWait, thisContext, owner, parent,
             awaited, partialQueue, key, gPending>>

\* Entries of the cache Map: none, the value that execution e of fn
\* produced, or the promise made for execution e.
NoEntry == [tag |-> "none", ref |-> 0]
ValueEntry(e) == [tag |-> "value", ref |-> e]
PromiseEntry(e) == [tag |-> "promise", ref |-> e]

\* cache.has(key), cache.get(key), cache.set(key, x), cache.delete(key)
Has(c, k) == c[k].tag # "none"
Get(c, k) == c[k]
Set(c, k, x) == [c EXCEPT ![k] = x]
Delete(c, k) == [c EXCEPT ![k] = NoEntry]

\* The else branch without its cache.set.
CacheReturnsSkipped(c, k, e) == c

\* else { cache.set(key, returns) }
CacheReturns(c, k, e) == Set(c, k, ValueEntry(e))

\* The promise branch without its cache.set.
CachePromiseSkipped(c, k, e) == c

\* cache.set(key, promise)
CachePromise(c, k, e) == Set(c, k, PromiseEntry(e))

\* The catch block without its cache.delete.
EvictSkipped(c, k) == c

\* catch (ex) { cache.delete(key); throw ex }
Evict(c, k) == Delete(c, k)

\* A call that stores what fn threw as the result of the key.
FnThrewCached(c, k, e) == Set(c, k, ValueEntry(e))

\* fn() throws: the call is left before any cache.set.
FnThrew(c, k, e) == c

\* The state of an execution of fn when the call returns.
FnState(fn) ==
  CASE fn = "returns" -> "returned"
    [] fn = "throws" -> "threw"
    [] fn = "promise" -> "pending"

\* The cache after fn was executed (execution e).
AfterFn(c, k, e, fn) ==
  CASE fn = "returns" -> CacheReturns(c, k, e)
    [] fn = "throws" -> FnThrew(c, k, e)
    [] fn = "promise" -> CachePromise(c, k, e)

\* singleton(key, fn)
SingletonCall(k, fn) ==
  /\ component = "singleton"
  /\ Len(calls) < MaxSingletonCalls
  /\ IF Has(cache, k)
     THEN /\ calls' = Append(calls, [key |-> k, ran |-> FALSE, threw |-> FALSE,
                                     result |-> Get(cache, k)])
          /\ UNCHANGED <<cache, execs>>
     ELSE /\ execs' = Append(execs, [key |-> k, state |-> FnState(fn)])
          /\ cache' = AfterFn(cache, k, Len(execs) + 1, fn)
          /\ calls' = Append(calls, [key |-> k, ran |-> TRUE, threw |-> fn = "throws",
                                     result |-> IF fn = "throws" THEN NoEntry
                                                ELSE Get(cache', k)])
  /\ UNCHANGED <<component, muxVars>>
  /\ UNCHANGED handleVars

\* `await returns` yields the value of execution e: cache.set(key, value).
SingletonFulfil(e) ==
  /\ component = "singleton"
  /\ e \in DOMAIN execs
  /\ execs[e].state = "pending"
  /\ execs' = [execs EXCEPT ![e].state = "fulfilled"]
  /\ cache' = Set(cache, execs[e].key, ValueEntry(e))
  /\ UNCHANGED <<component, muxVars, calls>>
  /\ UNCHANGED handleVars

\* `await returns` throws: the catch block runs and the promise rejects.
SingletonReject(e) ==
  /\ component = "singleton"
  /\ e \in DOMAIN execs
  /\ execs[e].state = "pending"
  /\ execs' = [execs EXCEPT ![e].state = "rejected"]
  /\ cache' = Evict(cache, execs[e].key)
  /\ UNCHANGED <<component, muxVars, calls>>
  /\ UNCHANGED handleVars

SingletonNext ==
  \/ \E k \in SingletonKeys, fn \in FnKinds : SingletonCall(k, fn)
  \/ \E e \in 1..MaxSingletonCalls : SingletonFulfil(e)
  \/ \E e \in 1..MaxSingletonCalls : SingletonReject(e)

(***************************************************************************)
(* Initial state and specifications                                        *)
(***************************************************************************)

Fresh ==
  /\ pc = [t \in Tasks |-> "idle"]
  /\ kind = [t \in Tasks |-> "W"]
  /\ items = <<>>
  /\ queues = [q \in Roots \cup Tasks |-> <<>>]
  /\ slots = [t \in Tasks |-> <<>>]
  /\ stepWait = {}
  /\ thisContext = [o \in Owners |-> Root(o)]
  /\ owner = [t \in Tasks |-> NoOwner]
  /\ parent = [t \in Tasks |-> 0]
  /\ awaited = [t \in Tasks |-> FALSE]
  /\ partialQueue = [k \in Keys |-> NoQueue]
  /\ key = [t \in Tasks |-> NoKey]
  /\ gPending = {}
  /\ signalAborted = [t \in Tasks |-> FALSE]
  /\ unlockCalled = [t \in Tasks |-> FALSE]
  /\ releaseCalls = [t \in Tasks |-> 0]
  /\ cache = [k \in SingletonKeys |-> NoEntry]
  /\ execs = <<>>
  /\ calls = <<>>

IrmInit == component = "irm" /\ Fresh

KrmInit == component = "krm" /\ Fresh

\* The module of singleton() is loaded and no call was made.
SingletonInit == component = "singleton" /\ Fresh

Init == component \in {"irm", "krm"} /\ Fresh

Next == IrmNext \/ KrmNext

\* One owner instance used through the decorator / manual form.
SpecIrm == IrmInit /\ [][IrmNext]_vars

\* One keyed mux made by asyncmux.create().
SpecKrm == KrmInit /\ [][KrmNext]_vars

\* A program that uses one of the two lock objects.
Spec == Init /\ [][Next]_vars

\* Promise callbacks always run; every granted handle is eventually released.
SpecKrmFair ==
  /\ SpecKrm
  /\ \A t \in Tasks : WF_vars(KrmGrant(t)) /\ WF_vars(KrmUnlock(t)) /\ WF_vars(KrmAdvance(t))
  /\ \A q \in Tasks : WF_vars(\E g \in DOMAIN items : KrmGlobalReady(q, g))

\* One keyed mux whose handles are released by unlock() and by dispose, once
\* or repeatedly.
SpecHandle == KrmInit /\ [][KrmNext \/ KrmHandleNext]_vars

\* A program that uses one of the two lock objects with abort signals.
SpecCancel == Init /\ [][CancelNext]_vars

\* One keyed mux with abort signals; promise callbacks always run and every
\* granted handle is eventually released.
SpecKrmCancelFair ==
  /\ KrmInit /\ [][KrmCancelNext]_vars
  /\ \A t \in Tasks : WF_vars(KrmGrant(t)) /\ WF_vars(KrmUnlock(t)) /\ WF_vars(KrmAdvance(t))
  /\ \A q \in Tasks : WF_vars(\E g \in DOMAIN items : KrmGlobalReady(q, g))

\* Several owner instances of one decorated class.
SpecOwners == IrmInit /\ [][OwnersNext]_vars

\* A program that calls singleton().
SpecSingleton == SingletonInit /\ [][SingletonNext]_vars

\* One owner whose decorated methods may fail.
SpecIrmFail == IrmInit /\ [][IrmNext \/ \E t \in Tasks : IrmFail(t)]_vars

\* One owner; promise callbacks always run and every body that can end ends.
SpecIrmFair ==
  /\ SpecIrm
  /\ \A t \in Tasks : WF_vars(IrmStart(t)) /\ WF_vars(IrmFinish(t))

(***************************************************************************)
(* Properties                                                              *)
(***************************************************************************)

Holding(t) == pc[t] = "holding"
Granted(t) == pc[t] \in {"holding", "unlocked", "done", "failed"}
Released(t) == pc[t] \in {"unlocked", "done", "failed"}
Called(t) == pc[t] # "idle"

\* Task t was issued from inside the body of task u (directly or nested).
RECURSIVE Inside(_, _)
Inside(t, u) == parent[t] # 0 /\ (parent[t] = u \/ Inside(parent[t], u))

Independent(t, u) == t # u /\ ~Inside(t, u) /\ ~Inside(u, t)

SameKey(t, u) == Called(t) /\ Called(u) /\ key[t] = key[u]

\* C1: instance mux: the bodies of two independently issued acquisitions on
\* the owner never run at the same time when at least one is exclusive.
C1_ExclusiveBodiesNeverOverlap ==
  component = "irm" =>
    \A t, u \in Tasks :
      (Independent(t, u) /\ Holding(t) /\ Holding(u)) => (kind[t] = "R" /\ kind[u] = "R")

\* C2: keyed mux: at most one exclusive acquisition of a key holds the lock.
C2_OneWriterPerKey ==
  component = "krm" =>
    \A t, u \in Tasks :
      (t # u /\ SameKey(t, u) /\ key[t] # NoKey /\ kind[t] = "W" /\ kind[u] = "W")
        => ~(Holding(t) /\ Holding(u))

\* C3: keyed mux: an unkeyed exclusive lock and a keyed lock are never held
\* at the same time.
C3_BarrierExcludesKeyed ==
  component = "krm" =>
    \A t, u \in Tasks :
      (Holding(t) /\ kind[t] = "W" /\ key[t] = NoKey /\ Holding(u)) => key[u] = NoKey

\* C4: instance mux: an exclusive acquire issued from inside a running shared
\* body is rejected with the Escalation error and holds no place in a queue.
C4_EscalationAlwaysRejected ==
  component = "irm" =>
    \A t \in Tasks :
      (Called(t) /\ kind[t] = "W" /\ parent[t] # 0 /\ kind[parent[t]] = "R")
        => (pc[t] = "rejected" /\ slots[t] = <<>>)

SharedSectionActive == \E u \in Tasks : Holding(u) /\ kind[u] = "R"

\* C5: instance mux: an exclusive acquire is rejected with Escalation only
\* while a shared critical section of the owner is active, and when no
\* critical section is active holderKind is none.
C5_EscalationOnlyWhileSharedActive ==
  /\ [][\A t \in Tasks :
          (pc[t] = "idle" /\ pc'[t] = "rejected") => SharedSectionActive]_vars
  /\ []((component = "irm" /\ \A t \in Tasks : ~Holding(t))
          => LockType(Context(TheOwner)) = "null")

\* C6: keyed mux: every acquire is eventually granted when every granted
\* handle is eventually released.
C6_EveryAcquireGranted ==
  \A t \in Tasks : (pc[t] = "waiting") ~> Granted(t)

\* C7: exclusive acquisitions of one owner or one key are granted in the
\* order of their requests: a later one starts only after each earlier one
\* has been granted and has released.
C7_WritersInArrivalOrder ==
  \A t, u \in Tasks :
    (t < u /\ kind[t] = "W" /\ kind[u] = "W" /\ Granted(u) /\ pc[t] # "rejected"
       /\ (IF component = "irm" THEN Independent(t, u)
           ELSE SameKey(t, u) /\ key[t] # NoKey))
      => Released(t)

\* C8: keyed mux, one key: a shared and an exclusive holder never hold
\* together, and an exclusive acquire that arrived after readers is granted
\* only after each of them has released.  (That a reader arriving while a
\* writer holds waits for its release is the first conjunct for that writer.)
C8_ReadersExcludeWriter ==
  component = "krm" =>
    \A t, u \in Tasks :
      (SameKey(t, u) /\ key[t] # NoKey /\ kind[t] = "W" /\ kind[u] = "R")
        => /\ ~(Holding(t) /\ Holding(u))
           /\ (u < t /\ Granted(t)) => Released(u)

\* The queues an arriving shared acquisition goes to.
ArrivalQueues(t) ==
  IF component = "irm" THEN {Context(TheOwner)}
  ELSE IF key'[t] = NoKey THEN (IF LiveQueues # {} THEN LiveQueues ELSE {RootQ})
  ELSE {partialQueue[key'[t]]}

\* The queue is empty, or its only item is the running reader cohort.
EmptyOrCohort(q) ==
  /\ q # NoQueue
  /\ \/ queues[q] = <<>>
     \/ /\ Len(queues[q]) = 1
        /\ items[queues[q][1]].type = "R"
        /\ items[queues[q][1]].ready

SharesQueue(t, u) == DOMAIN slots[t] \cap DOMAIN slots[u] # {}

\* C10: within one queue a shared acquisition requested after an exclusive
\* one that has not released is granted only after that one has released.
C10_ReaderWaitsBehindWriter ==
  \A t, u \in Tasks :
    (t < u /\ kind[t] = "W" /\ kind[u] = "R" /\ SharesQueue(t, u) /\ Granted(u))
      => Released(t)

StillQueued(t) == pc[t] \in {"waiting", "holding"}

\* C11: keyed mux: a keyed acquisition requested after an unkeyed exclusive
\* one is granted only after that one has released, and an unkeyed exclusive
\* acquisition is granted only after every keyed lock requested before it has
\* released.
C11_UnkeyedOrderedWithKeyed ==
  component = "krm" =>
    \A t, u \in Tasks :
      (t < u /\ Granted(u) /\ StillQueued(t))
        => /\ ~(key[t] = NoKey /\ kind[t] = "W" /\ key[u] # NoKey)
           /\ ~(key[t] # NoKey /\ key[u] = NoKey /\ kind[u] = "W")

\* Every other acquisition of the key of u, and every unkeyed acquisition,
\* has completed, and the callback that starts the queue of u has run.
OnlyOtherKeysActive(u) ==
  /\ \A t \in Tasks \ {u} :
       (Called(t) /\ key[t] \in {key[u], NoKey}) => pc[t] \in {"done", "rejected", "cancelled"}
  /\ \A q \in DOMAIN slots[u], g \in DOMAIN items : <<q, g>> \notin gPending

\* C12: keyed mux: with no unkeyed acquisition held or pending, an acquisition
\* of one key does not wait for acquisitions of other keys.
C12_DifferentKeysIndependent ==
  component = "krm" =>
    \A u \in Tasks :
      (pc[u] = "waiting" /\ key[u] # NoKey /\ OnlyOtherKeysActive(u)) => AllReady(u)

\* Exclusive locks of two keys are held together.
C12_Witness ==
  \E t, u \in Tasks :
    /\ Holding(t) /\ Holding(u) /\ kind[t] = "W" /\ kind[u] = "W"
    /\ key[t] # NoKey /\ key[u] # NoKey /\ key[t] # key[u]
    /\ \A v \in Tasks : Called(v) => key[v] # NoKey

\* Task t was issued from inside a body of kind k that awaits it.
AwaitedIn(t, k) == Called(t) /\ parent[t] # 0 /\ awaited[t] /\ kind[parent[t]] = k

\* C13: instance mux: an acquisition issued from inside a running exclusive
\* body that awaits it is not rejected and is granted (while the outer body,
\* which awaits it, still holds).
C13_NestedInExclusiveGranted ==
  /\ [](\A t \in Tasks : AwaitedIn(t, "W") => pc[t] # "rejected")
  /\ \A t \in Tasks : (pc[t] = "waiting" /\ AwaitedIn(t, "W")) ~> Granted(t)

\* C14: instance mux: a shared acquisition issued from inside a running
\* shared body that awaits it is not rejected and is granted (while the
\* outer reader, which awaits it, still holds).
C14_NestedSharedGranted ==
  /\ [](\A t \in Tasks : (kind[t] = "R" /\ AwaitedIn(t, "R")) => pc[t] # "rejected")
  /\ \A t \in Tasks :
       (pc[t] = "waiting" /\ kind[t] = "R" /\ AwaitedIn(t, "R")) ~> Granted(t)

\* The queues, the per-key mapping and the owner's context.
lockVars == <<items, queues, stepWait, partialQueue, gPending, thisContext>>

C16_PreAbortedLeavesState ==
  [][\A t \in Tasks :
       (pc[t] = "idle" /\ signalAborted'[t])
         => (pc'[t] = "rejected" /\ slots'[t] = <<>> /\ UNCHANGED lockVars)]_vars

\* An acquire with an aborted signal was rejected while locks were held and
\* awaited.
C16_Witness ==
  \E t, u, v \in Tasks :
    /\ pc[t] = "rejected" /\ signalAborted[t]
    /\ u < t /\ Holding(u) /\ v < t /\ pc[v] = "waiting"

Cancelled(t) == pc[t] \in {"aborted", "draining", "cancelled"}

\* C17: an acquire whose signal is aborted while it waits is rejected with
\* the reason and is never granted afterwards.
C17_AbortedNeverGranted ==
  [][\A t \in Tasks :
       /\ (pc[t] = "waiting" /\ signalAborted'[t]) => pc'[t] = "aborted"
       /\ Cancelled(t) => Cancelled(t)']_vars

\* The slot of a cancelled acquire reached the head and the acquisition
\* queued behind it holds the lock.
C17_Witness ==
  \E t, u \in Tasks :
    /\ pc[t] = "cancelled" /\ t < u /\ Holding(u) /\ SharesQueue(t, u)

\* C18: no acquisition queued behind a cancelled acquire waits for ever: it
\* is granted once the slot of the cancelled acquire has been released.
C18_CancelDoesNotWedge ==
  []<>(\A t, u \in Tasks :
         (pc[t] \in {"aborted", "cancelled"} /\ t < u /\ SharesQueue(t, u))
           => pc[u] # "waiting")

\* C19: the abort of the signal of a granted acquire changes nothing: the
\* lock stays held and no queue moves.
C19_AbortAfterGrantNoEffect ==
  [][\A t \in Tasks :
       (Holding(t) /\ ~signalAborted[t] /\ signalAborted'[t])
         => UNCHANGED <<pc, slots, lockVars>>]_vars

\* The signal of a holder was aborted while another acquisition waits for
\* its release.
C19_Witness ==
  \E t, u \in Tasks :
    /\ Holding(t) /\ signalAborted[t]
    /\ t < u /\ pc[u] = "waiting" /\ SharesQueue(t, u) /\ ~AllReady(u)

\* No step and no reader count of task t is left in its queue item.
SlotRemoved(t) ==
  LET id == slots[t][Captured(t)] IN
  IF kind[t] = "W"
  THEN \A i \in 1..Len(items'[id].steps) : items'[id].steps[i].t # t
  ELSE items'[id].count = items[id].count - 1

\* The head item of the queue, when there is one, has been started.
HeadStarted(q) == queues[q] # <<>> => items[Head(queues[q])].ready

\* Every acquisition that was issued has released, failed or been rejected.
Quiescent == \A t \in Tasks : pc[t] \in {"idle", "done", "failed", "rejected"}

\* C20: instance mux: when a body fails the release has run before the error
\* reaches the caller: the context is restored, the slot of the acquisition
\* is removed and the head of its queue is started; with nothing else queued
\* every queue of the owner is empty.
C20_FailureReleases ==
  /\ [][\A t \in Tasks :
          (pc[t] = "holding" /\ pc'[t] = "failed")
            => (Context(owner[t])' = Captured(t) /\ SlotRemoved(t) /\ HeadStarted(Captured(t))')]_vars
  /\ []((component = "irm" /\ Quiescent) => \A q \in DOMAIN queues : queues[q] = <<>>)

\* A reader failed with the Escalation error of its nested exclusive acquire
\* and the writer queued behind it was woken.
C20_Witness ==
  \E t, u, v \in Tasks :
    /\ pc[t] = "failed" /\ kind[t] = "R"
    /\ parent[u] = t /\ awaited[u] /\ pc[u] = "rejected"
    /\ kind[v] = "W" /\ Holding(v) /\ Captured(v) = Captured(t)

(***************************************************************************)
(* Queue invariants                                                        *)
(***************************************************************************)

\* The items that are in queue q.
ItemsOf(q) == {queues[q][i] : i \in 1..Len(queues[q])}

\* C26: every QueueItemW that is in a queue has a non-empty steps list, and
\* the item a holding writer was admitted through is still in its queue.
C26_WriterItemsKeepSteps ==
  /\ \A q \in DOMAIN queues : \A id \in ItemsOf(q) :
       items[id].type = "W" => items[id].steps # <<>>
  /\ \A t \in Tasks :
       (Holding(t) /\ kind[t] = "W")
         => \A q \in DOMAIN slots[t] : slots[t][q] \in ItemsOf(q)

\* The tag of the i-th item of queue q.
TagAt(q, i) == items[queues[q][i]].type

\* Queue q grows in this step.
Grows(q) == Len(queues'[q]) > Len(queues[q])

\* C27: no two adjacent items of a queue have the same tag, and an arrival
\* appends a new item only to an empty queue or behind a tail of another
\* tag (otherwise it joins the tail item).
C27_AdjacentTagsDiffer ==
  /\ [](\A q \in DOMAIN queues : \A i \in 1..(Len(queues[q]) - 1) :
          TagAt(q, i) # TagAt(q, i + 1))
  /\ [][\A q \in DOMAIN queues :
          (Grows(q) /\ queues[q] # <<>>) =>
            /\ Len(queues'[q]) = Len(queues[q]) + 1
            /\ TagAt(q, Len(queues[q])) # items'[queues'[q][Len(queues'[q])]].type]_vars

\* A queue holds a writer item, a reader item that two readers joined and a
\* writer item that two writers joined.
C27_Witness ==
  \E q \in DOMAIN queues :
    /\ Len(queues[q]) >= 3
    /\ \E i \in 1..Len(queues[q]) : TagAt(q, i) = "R" /\ items[queues[q][i]].count >= 2
    /\ \E i \in 1..Len(queues[q]) : TagAt(q, i) = "W" /\ Len(items[queues[q][i]].steps) >= 2
    /\ \E i \in 1..Len(queues[q]) : TagAt(q, i) = "G"

\* C28: the head item of every non-empty queue (the queue of a context of
\* the instance mux, #globalQueue, a per-key queue) is ready.
C28_HeadIsReady == \A q \in DOMAIN queues : HeadStarted(q)

\* The head of a per-key queue is the QueueItemG the queue was created with,
\* and that item waits behind another item of #globalQueue.
HeadIsQueuedGlobalItem(q) ==
  /\ component = "krm" /\ q # RootQ /\ queues[q] # <<>>
  /\ items[Head(queues[q])].type = "G"
  /\ Head(queues[q]) \in ItemsOf(RootQ)
  /\ Head(queues[q]) # Head(queues[RootQ])

\* C28 (amended): the head item of every non-empty queue is ready, except
\* that the head of a per-key queue may be the QueueItemG it was created
\* with while that item waits behind another item of #globalQueue.
C28_HeadIsReadyOrQueuedGlobalItem ==
  \A q \in DOMAIN queues : HeadStarted(q) \/ HeadIsQueuedGlobalItem(q)

\* A keyed acquisition was issued while an unkeyed one is held: the head of
\* the new per-key queue is a QueueItemG that is not ready.
C28_Witness ==
  \E t, u \in Tasks :
    /\ Holding(t) /\ key[t] = NoKey
    /\ pc[u] = "waiting" /\ key[u] # NoKey
    /\ HeadIsQueuedGlobalItem(partialQueue[key[u]])
    /\ ~items[Head(queues[partialQueue[key[u]]])].ready

\* The `next` closure of the acquisition has not run yet.
NotYetReleased(t) == pc[t] \in {"waiting", "holding", "unlocked", "aborted", "draining"}

\* The readers that joined item id of queue q and have not released.
Members(q, id) ==
  {t \in Tasks : /\ kind[t] = "R" /\ NotYetReleased(t)
                 /\ q \in DOMAIN slots[t] /\ slots[t][q] = id}

\* Every QueueItemR in a queue counts its members, of which there is one at
\* least.
ReaderCountsExact ==
  \A q \in DOMAIN queues : \A id \in ItemsOf(q) :
    items[id].type = "R"
      => (items[id].count >= 1 /\ items[id].count = Cardinality(Members(q, id)))

\* A QueueItemR stays in its queue until its last member has released.
ReaderItemsStay ==
  \A t \in Tasks :
    (kind[t] = "R" /\ NotYetReleased(t))
      => \A q \in DOMAIN slots[t] : slots[t][q] \in ItemsOf(q)

InUse(q) == \E t \in Tasks : NotYetReleased(t) /\ q \in DOMAIN slots[t]

\* #partialQueue has an entry for a key only while its queue is in use.
EntryOnlyWhileInUse ==
  \A k \in Keys : partialQueue[k] # NoQueue => InUse(partialQueue[k])

\* A per-key queue that is in use is the entry of its key.
EntryWhileInUse ==
  \A q \in Tasks : (key[q] # NoKey /\ InUse(q)) => partialQueue[key[q]] = q

\* C30: keyed mux: #partialQueue has an entry for a key exactly while some
\* acquisition is holding or waiting on that key's queue; no release removes
\* the entry of a queue that still has a holder or waiter.
C30_EntryExactlyWhileInUse ==
  component = "krm" => (EntryOnlyWhileInUse /\ EntryWhileInUse)

(***************************************************************************)
(* singleton                                                               *)
(***************************************************************************)

\* This step is a singleton() call; TheCall is that call.
NewCall == Len(calls') = Len(calls) + 1
TheCall == calls'[Len(calls')]

\* This step executes fn; TheExec is the number of that execution.
Executes == Len(execs') = Len(execs) + 1
TheExec == Len(execs')

\* The executions of fn made for key k that are in state st.
ExecsOf(k, st) == {e \in DOMAIN execs : execs[e].key = k /\ execs[e].state = st}

\* Key k holds the value a synchronous fn returned.
SyncCached(k) == cache[k].tag = "value" /\ execs[cache[k].ref].state = "returned"

\* C22: a fn that returns synchronously is executed at most once per key:
\* its value is cached and stays cached, a later call with the key returns
\* that value without executing fn, and a call leaves the entries of the
\* other keys alone.
C22_SyncExecutedOncePerKey ==
  /\ [](\A k \in SingletonKeys : Cardinality(ExecsOf(k, "returned")) <= 1)
  /\ [][\A k \in SingletonKeys :
          /\ (NewCall /\ TheCall.key = k /\ Executes /\ execs'[TheExec].state = "returned")
               => (TheCall.result = ValueEntry(TheExec) /\ SyncCached(k)')
          /\ SyncCached(k) => cache'[k] = cache[k]
          /\ (SyncCached(k) /\ NewCall /\ TheCall.key = k)
               => (~TheCall.ran /\ TheCall.result = cache[k] /\ UNCHANGED execs)
          /\ (NewCall /\ TheCall.key # k) => cache'[k] = cache[k]]_vars

\* Two calls with one key returned the value of the one execution of a
\* synchronous fn, and a call with another key cached another value.
C22_Witness ==
  \E i, j, m \in DOMAIN calls :
    /\ i < j /\ calls[i].key = calls[j].key /\ calls[m].key # calls[i].key
    /\ calls[i].ran /\ calls[i].result.tag = "value" /\ ~calls[j].ran
    /\ calls[j].result = calls[i].result
    /\ calls[m].ran /\ calls[m].result.tag = "value"
    /\ calls[m].result # calls[i].result

\* The promise made for key k has not settled.
InFlight(k) == cache[k].tag = "promise" /\ execs[cache[k].ref].state = "pending"

\* C23: while the promise of fn is in flight, the cache holds the promise
\* made for that execution, every call with the key returns that one
\* promise and none executes fn again.
C23_InFlightPromiseShared ==
  /\ [](\A e \in DOMAIN execs :
          execs[e].state = "pending" => cache[execs[e].key] = PromiseEntry(e))
  /\ [][\A k \in SingletonKeys :
          /\ (NewCall /\ TheCall.key = k /\ Executes /\ execs'[TheExec].state = "pending")
               => TheCall.result = PromiseEntry(TheExec)
          /\ (InFlight(k) /\ NewCall /\ TheCall.key = k)
               => (~TheCall.ran /\ TheCall.result = cache[k] /\ UNCHANGED execs)]_vars

\* Three calls with one key returned the promise of one pending execution.
C23_Witness ==
  \E i, j, m \in DOMAIN calls :
    /\ i < j /\ j < m
    /\ calls[i].key = calls[j].key /\ calls[j].key = calls[m].key
    /\ calls[i].ran /\ ~calls[j].ran /\ ~calls[m].ran
    /\ calls[i].result.tag = "promise"
    /\ calls[j].result = calls[i].result /\ calls[m].result = calls[i].result
    /\ execs[calls[i].result.ref].state = "pending"

\* Execution e is rejected in this step.
Rejects(e) == execs[e].state = "pending" /\ execs'[e].state = "rejected"

C25_SyncThrowNotCached ==
  [][\A k \in SingletonKeys :
       /\ (NewCall /\ TheCall.key = k /\ Executes /\ execs'[TheExec].state = "threw")
            => (TheCall.threw /\ cache' = cache /\ ~Has(cache', k))
       /\ (ExecsOf(k, "threw") # {} /\ ~Has(cache, k) /\ NewCall /\ TheCall.key = k)
            => (TheCall.ran /\ Executes /\ execs'[TheExec].key = k)]_vars

\* A call threw what fn threw, and a later call with the key executed fn,
\* which returned a value.
C25_Witness ==
  \E i, j \in DOMAIN calls :
    /\ i < j /\ calls[i].key = calls[j].key
    /\ calls[i].threw /\ calls[j].ran /\ calls[j].result.tag = "value"
    /\ \A m \in DOMAIN calls : (i < m /\ m < j) => calls[m].key # calls[i].key

(***************************************************************************)
(* Several owners                                                          *)
(***************************************************************************)

\* The owner whose acquisitions use queue q: the root context of an owner,
\* or the context made for the body of a task.
QueueOwner(q) == IF q \in Roots THEN CHOOSE o \in Owners : Root(o) = q ELSE owner[q]

\* The acquisition of task t takes a step: its call, its start or its end.
Acts(t) == pc'[t] # pc[t]

\* Nothing of owner o changes in this step: its context (and so its lock
\* type), its queues and their items.
OwnerUnchanged(o) ==
  /\ thisContext'[o] = thisContext[o]
  /\ \A q \in DOMAIN queues :
       QueueOwner(q) = o
         => (queues'[q] = queues[q] /\ \A id \in ItemsOf(q) : items'[id] = items[id])

\* No other acquisition is queued or held on the owner of task t.
AloneOnOwner(t) ==
  \A u \in Tasks \ {t} : owner[u] = owner[t] => pc[u] \in {"done", "rejected"}

\* C21: instance mux: acquisitions on different owners are independent.  A
\* step of an acquisition on one owner changes neither the queues nor the
\* lock type of another owner; an acquisition that is alone on its owner is
\* ready whatever is held on other owners; and an exclusive acquire is
\* rejected with the Escalation error only when the context of its own
\* owner is a shared one.
C21_OwnersIndependent ==
  /\ [](\A t \in Tasks : (Pending(t) /\ AloneOnOwner(t)) => AllReady(t))
  /\ [][\A t \in Tasks :
          /\ Acts(t) => \A o \in Owners \ {owner'[t]} : OwnerUnchanged(o)
          /\ (pc[t] = "idle" /\ pc'[t] = "rejected")
               => LockType(Context(owner'[t])) = "R"]_vars

\* Inside a shared body on one owner an awaited exclusive acquisition on
\* another owner holds, while a third acquisition waits on the first owner.
C21_Witness ==
  \E p, t, u \in Tasks :
    /\ owner[p] # owner[t] /\ owner[t] # NoOwner
    /\ kind[p] = "R" /\ Holding(p) /\ Context(owner[p]) = p
    /\ parent[t] = p /\ awaited[t] /\ kind[t] = "W" /\ Holding(t)
    /\ owner[u] = owner[p] /\ kind[u] = "W" /\ pc[u] = "waiting" /\ parent[u] = 0

(***************************************************************************)
(* Keyed mux: unkeyed acquisitions over per-key queues                     *)
(***************************************************************************)

\* Task t issues an unkeyed acquire in this step while per-key queues exist.
FansOut(t) ==
  /\ component = "krm" /\ pc[t] = "idle" /\ pc'[t] = "waiting"
  /\ key'[t] = NoKey /\ LiveQueues # {}

\* Task t holds or awaits a slot on every queue of a set of per-key queues.
FannedOut(t) == key[t] = NoKey /\ RootQ \notin DOMAIN slots[t] /\ DOMAIN slots[t] # {}

\* Another acquisition has joined the item of t on queue q and has not
\* released.
SharedSlot(t, q) ==
  \E u \in Tasks \ {t} :
    NotYetReleased(u) /\ q \in DOMAIN slots[u] /\ slots[u][q] = slots[t][q]

\* The release of t advances queue q once: the slot of t is given up, and the
\* item of t leaves the queue when, and only when, nobody else is on it.
AdvancedOnce(t, q) ==
  LET id == slots[t][q] IN
  /\ IF kind[t] = "W"
     THEN \A i \in 1..Len(items'[id].steps) : items'[id].steps[i].t # t
     ELSE items'[id].count = items[id].count - 1
  /\ IF SharedSlot(t, q)
     THEN queues'[q] = queues[q]
     ELSE queues[q] # <<>> /\ Head(queues[q]) = id /\ queues'[q] = Tail(queues[q])

\* An unkeyed acquire takes a slot on every per-key queue of the moment.
FanOutTakesEveryQueue ==
  [][\A t \in Tasks : FansOut(t) => DOMAIN slots'[t] = LiveQueues]_vars

\* It is granted only when its slot is ready on all of those queues.
FanInWaitsForEveryQueue ==
  [][\A t \in Tasks :
       (FannedOut(t) /\ pc[t] = "waiting" /\ pc'[t] = "holding")
         => \A q \in DOMAIN slots[t] : SlotReady(t, q)]_vars

\* Its release advances every one of those queues exactly once.
ReleaseAdvancesEveryQueue ==
  [][\A t \in Tasks :
       (FannedOut(t) /\ pc[t] = "unlocked" /\ pc'[t] = "done")
         => \A q \in DOMAIN slots[t] : AdvancedOnce(t, q)]_vars

\* C31: keyed mux: an unkeyed acquire issued while per-key queues exist
\* takes one slot on every per-key queue of that moment, is granted only
\* when its slot is ready on all of them, and its release advances every
\* one of those queues exactly once.
C31_FanOutFanIn ==
  FanOutTakesEveryQueue /\ FanInWaitsForEveryQueue /\ ReleaseAdvancesEveryQueue

(***************************************************************************)
(* Instance mux: acquisitions issued inside one exclusive body             *)
(***************************************************************************)

\* Tasks t and u were issued, t first, by the body of one exclusive
\* acquisition.
\* Every acquisition issued after that of task p was issued by the body of p.
OnlyNestedIn(p) == \A v \in Tasks : (v > p /\ Called(v)) => parent[v] = p

Siblings(t, u) ==
  /\ t < u /\ parent[t] # 0 /\ parent[t] = parent[u]
  /\ kind[parent[t]] = "W" /\ Called(t) /\ Called(u)
  /\ OnlyNestedIn(parent[t])

\* The body of the acquisition has begun.
Began(t) == pc[t] \in {"holding", "done"}

\* The acquisition is over: its body has ended, or its call was rejected.
Over(t) == pc[t] \in {"done", "rejected"}

\* Nested exclusive acquisitions exclude one another and run in issue order.
NestedWritersInOrder ==
  \A t, u \in Tasks :
    (Siblings(t, u) /\ kind[t] = "W" /\ kind[u] = "W")
      => (~(Holding(t) /\ Holding(u)) /\ (Began(u) => Over(t)))

\* A nested shared acquisition does not wait for nested shared ones: it is
\* ready once the nested exclusive acquisitions issued before it are over.
NestedReadersTogether ==
  \A u \in Tasks :
    (Pending(u) /\ kind[u] = "R" /\ parent[u] # 0 /\ kind[parent[u]] = "W"
       /\ OnlyNestedIn(parent[u])
       /\ \A t \in Tasks : (Siblings(t, u) /\ kind[t] = "W") => Over(t))
      => AllReady(u)

\* A nested exclusive acquisition issued after nested shared ones begins
\* only after they are over.
NestedWriterAfterReaders ==
  \A t, u \in Tasks :
    (Siblings(t, u) /\ kind[t] = "R" /\ kind[u] = "W" /\ Began(u)) => Over(t)

\* C32: instance mux: the acquisitions issued by one running exclusive body
\* obey the rules of top-level acquisitions among themselves: nested
\* exclusive ones exclude one another and run in issue order, nested shared
\* ones run together, and a nested exclusive one issued after nested shared
\* ones begins only after those are over.
C32_NestedObeySameRules ==
  component = "irm"
    => (NestedWritersInOrder /\ NestedReadersTogether /\ NestedWriterAfterReaders)

(***************************************************************************)
(* Keyed mux: quiescence and frame of a keyed acquire                      *)
(***************************************************************************)

\* #partialQueue has no entry.
MappingEmpty == \A k \in Keys : partialQueue[k] = NoQueue

\* C33: keyed mux: whenever every granted handle has been released and no
\* acquire is pending, #globalQueue is empty (no QueueItemG is left) and
\* #partialQueue is empty.
C33_QuiescentIsInitial ==
  (component = "krm" /\ Quiescent) => (queues[RootQ] = <<>> /\ MappingEmpty)

\* No exclusive acquisition is held or pending on the mux.
NoWriterActive == \A u \in Tasks : (Called(u) /\ kind[u] = "W") => ~NotYetReleased(u)

\* No globalItem.ready.then(next) callback is due.
NoCallbackDue == \A e \in gPending : ~items[e[2]].ready

\* C34: keyed mux: when no exclusive acquisition is held or pending, a shared
\* acquisition, keyed or unkeyed, does not wait for any shared holder: once
\* the callbacks that are due have run it is ready.
C34_SharedNeverWaitsForShared ==
  component = "krm" =>
    \A t \in Tasks :
      (Pending(t) /\ kind[t] = "R" /\ NoWriterActive /\ NoCallbackDue) => AllReady(t)

\* Task t issues a keyed acquire in this step for a key that has a queue.
ArrivesOnExistingQueue(t) ==
  /\ component = "krm" /\ pc[t] = "idle" /\ pc'[t] = "waiting"
  /\ key'[t] # NoKey /\ partialQueue[key'[t]] # NoQueue

\* C35: keyed mux: a keyed acquire for a key whose per-key queue exists
\* arrives on that queue only: #globalQueue, the queues of the other keys
\* and their items, and #partialQueue are unchanged.
C35_KeyedArrivalFrame ==
  [][\A t \in Tasks :
       ArrivesOnExistingQueue(t) =>
         LET q == partialQueue[key'[t]] IN
         /\ DOMAIN slots'[t] = {q}
         /\ partialQueue' = partialQueue /\ gPending' = gPending
         /\ \A r \in DOMAIN queues \ {q} : queues'[r] = queues[r]
         /\ \A id \in DOMAIN items : id \notin ItemsOf(q) => items'[id] = items[id]]_vars

\* Two keys have a queue, and an acquisition holds or waits on the queue
\* that an earlier acquisition created for its key, while an acquisition of
\* the other key is waiting.
C35_Witness ==
  \E t, u \in Tasks :
    /\ component = "krm" /\ key[t] # NoKey /\ StillQueued(t)
    /\ partialQueue[key[t]] # t /\ DOMAIN slots[t] = {partialQueue[key[t]]}
    /\ key[u] # NoKey /\ key[u] # key[t] /\ StillQueued(u)
    /\ partialQueue[key[u]] # NoQueue
    /\ queues[RootQ] # <<>>

====
